---- MODULE Spec2Model ----
(***************************************************************************)
(* The application state aggregate of monjo-kompass (src/app/state.rs):    *)
(* the fields of AppState are the variables, AppState::new is Init, and    *)
(* every public method is one action.  Option<T> is a sequence of length   *)
(* at most one: None is <<>> and Some(x) is <<x>>.  A String buffer is a   *)
(* sequence of one-character strings.  Vec indices are 0-based as in the   *)
(* source; sequences are 1-based, so element i of a Vec is v[i + 1].       *)
(***************************************************************************)
EXTENDS Integers, Sequences, FiniteSets, TLC

VARIABLES
    connection, current_database, current_collection,
    databases, collections, documents,
    current_page, page_size, filter, loading, error, should_quit,
    selected_db_index, selected_coll_index, current_screen,
    selected_doc_index, doc_scroll_offset,
    connection_input, input_mode, filter_input, filter_mode,
    query_mode, query_input,
    connection_history, selected_history_index, show_history,
    last_op,   \* the call made last, << method, arguments... >>; << "new" >> at first
    result,    \* what that call returned: Unit, or apply_filter's Result
    calls_left \* calls the run may still make; -1: any number

\* ---------------------------------------------------------------- bounds

\* longest list handed to a bulk setter
MaxLen == 2
\* longest text a push may produce in a buffer
MaxBuf == 2
\* largest scroll offset scroll_doc_down is followed to
MaxScroll == 2
\* longest sequence of calls Spec follows
MaxSteps == 3

\* ---------------------------------------------------------------- values

None == <<>>
Some(x) == <<x>>

\* what a call returns: (), or a Result<(), String>
Unit == << "unit" >>
Ok == << "Ok" >>
Err(message) == << "Err", message >>

Screens == {"Connection", "DatabaseList", "CollectionList", "DocumentView"}

\* the characters a keystroke may carry
CharSet == {"{", "}", "1"}
Digits == {"1"}

\* String::from("mongodb://localhost:27017")
DefaultUri ==
    << "m", "o", "n", "g", "o", "d", "b", ":", "/", "/",
       "l", "o", "c", "a", "l", "h", "o", "s", "t", ":",
       "2", "7", "0", "1", "7" >>

\* The lists a collaborator may hand over: every contiguous run lo..hi of the
\* opaque items 1..MaxLen, the empty list included.
Lists == { [i \in 1..k |-> lo + i - 1] : lo \in 1..MaxLen, k \in 0..MaxLen } \cap
         UNION { [1..k -> 1..MaxLen] : k \in 0..MaxLen }

Uris == {"db://host:1", "db://host:2"}
ServerInfos == {"server 6.0", "server 7.0"}
Messages == {"connection refused", "query failed"}

\* ---------------------------------------------------------------- state

sel_vars == << databases, collections, documents, connection_history,
               selected_db_index, selected_coll_index, selected_doc_index,
               selected_history_index >>
edit_vars == << connection_input, filter_input, query_input, filter,
                input_mode, filter_mode, query_mode >>
ctl_vars == << connection, current_database, current_collection, current_page,
               page_size, loading, error, should_quit, current_screen,
               doc_scroll_offset, show_history >>
app_vars == << sel_vars, edit_vars, ctl_vars >>
vars == << app_vars, last_op, result, calls_left >>

\* construction with an empty connection text, as String::new() would give
new_blank_input ==
    /\ connection = None
    /\ current_database = None
    /\ current_collection = None
    /\ databases = <<>>
    /\ collections = <<>>
    /\ documents = <<>>
    /\ current_page = 0
    /\ page_size = 20
    /\ filter = None
    /\ loading = FALSE
    /\ error = None
    /\ should_quit = FALSE
    /\ selected_db_index = 0
    /\ selected_coll_index = 0
    /\ current_screen = "Connection"
    /\ selected_doc_index = 0
    /\ doc_scroll_offset = 0
    /\ connection_input = <<>>
    /\ input_mode = FALSE
    /\ filter_input = <<>>
    /\ filter_mode = FALSE
    /\ query_input = <<>>
    /\ query_mode = FALSE
    /\ connection_history = <<>>
    /\ selected_history_index = 0
    /\ show_history = FALSE

new ==
    /\ connection = None
    /\ current_database = None
    /\ current_collection = None
    /\ databases = <<>>
    /\ collections = <<>>
    /\ documents = <<>>
    /\ current_page = 0
    /\ page_size = 20
    /\ filter = None
    /\ loading = FALSE
    /\ error = None
    /\ should_quit = FALSE
    /\ selected_db_index = 0
    /\ selected_coll_index = 0
    /\ current_screen = "Connection"
    /\ selected_doc_index = 0
    /\ doc_scroll_offset = 0
    /\ connection_input = DefaultUri
    /\ input_mode = FALSE
    /\ filter_input = <<>>
    /\ filter_mode = FALSE
    /\ query_input = <<>>
    /\ query_mode = FALSE
    /\ connection_history = <<>>
    /\ selected_history_index = 0
    /\ show_history = FALSE

\* a run of any number of calls
Init ==
    /\ new
    /\ last_op = << "new" >>
    /\ result = Unit
    /\ calls_left = -1

\* a run of at most MaxSteps calls
InitBounded ==
    /\ new
    /\ last_op = << "new" >>
    /\ result = Unit
    /\ calls_left = MaxSteps

\* ---------------------------------------------------------------- bulk setters

set_databases(list) ==
    /\ databases' = list
    /\ selected_db_index' = 0
    /\ UNCHANGED << collections, documents, connection_history,
                    selected_coll_index, selected_doc_index,
                    selected_history_index >>
    /\ UNCHANGED << edit_vars, ctl_vars >>

\* the list stored with the cursor left where it was
set_collections_keeps_cursor(list) ==
    /\ collections' = list
    /\ UNCHANGED << databases, documents, connection_history,
                    selected_db_index, selected_coll_index, selected_doc_index,
                    selected_history_index >>
    /\ UNCHANGED << edit_vars, ctl_vars >>

set_collections(list) ==
    /\ collections' = list
    /\ selected_coll_index' = 0
    /\ UNCHANGED << databases, documents, connection_history,
                    selected_db_index, selected_doc_index,
                    selected_history_index >>
    /\ UNCHANGED << edit_vars, ctl_vars >>

set_documents(list) ==
    /\ documents' = list
    /\ UNCHANGED << databases, collections, connection_history,
                    selected_db_index, selected_coll_index, selected_doc_index,
                    selected_history_index >>
    /\ UNCHANGED << edit_vars, ctl_vars >>

\* the history setter resetting its cursor like the other setters
set_connection_history_resets_cursor(history) ==
    /\ connection_history' = history
    /\ selected_history_index' = 0
    /\ UNCHANGED << databases, collections, documents,
                    selected_db_index, selected_coll_index, selected_doc_index >>
    /\ UNCHANGED << edit_vars, ctl_vars >>

set_connection_history(history) ==
    /\ connection_history' = history
    /\ UNCHANGED << databases, collections, documents,
                    selected_db_index, selected_coll_index, selected_doc_index,
                    selected_history_index >>
    /\ UNCHANGED << edit_vars, ctl_vars >>

\* ---------------------------------------------------------------- cursors

\* Vec::get(index): Some(&v[index]) when index < v.len(), else None
get(v, index) == IF index < Len(v) THEN Some(v[index + 1]) ELSE None

\* the index each select_* method stores, from the index and the list length
next_db_index(i, n) == IF n # 0 THEN (i + 1) % n ELSE i
\* no wrap from the first element: the cursor stays at 0
prev_db_index_stops_at_first(i, n) == IF n # 0 THEN (IF i = 0 THEN 0 ELSE i - 1) ELSE i
prev_db_index(i, n) == IF n # 0 THEN (IF i = 0 THEN n - 1 ELSE i - 1) ELSE i
next_coll_index(i, n) == IF n # 0 THEN (i + 1) % n ELSE i
prev_coll_index(i, n) == IF n # 0 THEN (IF i = 0 THEN n - 1 ELSE i - 1) ELSE i
\* the cursor of an empty list put back to 0
next_doc_index_resets_on_empty(i, n) == IF n # 0 THEN (i + 1) % n ELSE 0
next_doc_index(i, n) == IF n # 0 THEN (i + 1) % n ELSE i
prev_doc_index(i, n) == IF n # 0 THEN (IF i = 0 THEN n - 1 ELSE i - 1) ELSE i
\* a wrap one element late: the modulus is the length plus one
next_history_index_wraps_late(i, n) == IF n # 0 THEN (i + 1) % (n + 1) ELSE i
next_history_index(i, n) == IF n # 0 THEN (i + 1) % n ELSE i
prev_history_index(i, n) == IF n # 0 THEN (IF i = 0 THEN n - 1 ELSE i - 1) ELSE i

select_next_db ==
    /\ selected_db_index' = next_db_index(selected_db_index, Len(databases))
    /\ UNCHANGED << databases, collections, documents, connection_history,
                    selected_coll_index, selected_doc_index,
                    selected_history_index >>
    /\ UNCHANGED << edit_vars, ctl_vars >>

select_prev_db ==
    /\ selected_db_index' = prev_db_index(selected_db_index, Len(databases))
    /\ UNCHANGED << databases, collections, documents, connection_history,
                    selected_coll_index, selected_doc_index,
                    selected_history_index >>
    /\ UNCHANGED << edit_vars, ctl_vars >>

\* the modulus taken from the databases list instead of the collections list
select_next_coll_by_databases ==
    /\ selected_coll_index' = next_coll_index(selected_coll_index, Len(databases))
    /\ UNCHANGED << databases, collections, documents, connection_history,
                    selected_db_index, selected_doc_index,
                    selected_history_index >>
    /\ UNCHANGED << edit_vars, ctl_vars >>

select_next_coll ==
    /\ selected_coll_index' = next_coll_index(selected_coll_index, Len(collections))
    /\ UNCHANGED << databases, collections, documents, connection_history,
                    selected_db_index, selected_doc_index,
                    selected_history_index >>
    /\ UNCHANGED << edit_vars, ctl_vars >>

select_prev_coll ==
    /\ selected_coll_index' = prev_coll_index(selected_coll_index, Len(collections))
    /\ UNCHANGED << databases, collections, documents, connection_history,
                    selected_db_index, selected_doc_index,
                    selected_history_index >>
    /\ UNCHANGED << edit_vars, ctl_vars >>

select_next_doc ==
    /\ selected_doc_index' = next_doc_index(selected_doc_index, Len(documents))
    /\ UNCHANGED << databases, collections, documents, connection_history,
                    selected_db_index, selected_coll_index,
                    selected_history_index >>
    /\ UNCHANGED << edit_vars, ctl_vars >>

select_prev_doc ==
    /\ selected_doc_index' = prev_doc_index(selected_doc_index, Len(documents))
    /\ UNCHANGED << databases, collections, documents, connection_history,
                    selected_db_index, selected_coll_index,
                    selected_history_index >>
    /\ UNCHANGED << edit_vars, ctl_vars >>

select_next_history ==
    /\ selected_history_index' =
           next_history_index(selected_history_index, Len(connection_history))
    /\ UNCHANGED << databases, collections, documents, connection_history,
                    selected_db_index, selected_coll_index, selected_doc_index >>
    /\ UNCHANGED << edit_vars, ctl_vars >>

select_prev_history ==
    /\ selected_history_index' =
           prev_history_index(selected_history_index, Len(connection_history))
    /\ UNCHANGED << databases, collections, documents, connection_history,
                    selected_db_index, selected_coll_index, selected_doc_index >>
    /\ UNCHANGED << edit_vars, ctl_vars >>

get_selected_database == get(databases, selected_db_index)
get_selected_collection == get(collections, selected_coll_index)
\* a cursor past the end is clamped to the last document instead of giving none
get_selected_document_clamped ==
    IF documents = <<>> THEN None
    ELSE IF selected_doc_index < Len(documents)
         THEN Some(documents[selected_doc_index + 1])
         ELSE Some(documents[Len(documents)])
get_selected_document == get(documents, selected_doc_index)
get_selected_history_uri == get(connection_history, selected_history_index)

\* ---------------------------------------------------------------- connection, flags, screen

\* a connection is stored only while there is none
set_connection_if_absent(uri, server_info) ==
    /\ connection' = IF connection = None
                     THEN Some([uri |-> uri, server_info |-> server_info])
                     ELSE connection
    /\ UNCHANGED << current_database, current_collection, current_page,
                    page_size, loading, error, should_quit, current_screen,
                    doc_scroll_offset, show_history >>
    /\ UNCHANGED << sel_vars, edit_vars >>

set_connection(uri, server_info) ==
    /\ connection' = Some([uri |-> uri, server_info |-> server_info])
    /\ UNCHANGED << current_database, current_collection, current_page,
                    page_size, loading, error, should_quit, current_screen,
                    doc_scroll_offset, show_history >>
    /\ UNCHANGED << sel_vars, edit_vars >>

set_loading(flag) ==
    /\ loading' = flag
    /\ UNCHANGED << connection, current_database, current_collection,
                    current_page, page_size, error, should_quit,
                    current_screen, doc_scroll_offset, show_history >>
    /\ UNCHANGED << sel_vars, edit_vars >>

set_error(e) ==
    /\ error' = e
    /\ UNCHANGED << connection, current_database, current_collection,
                    current_page, page_size, loading, should_quit,
                    current_screen, doc_scroll_offset, show_history >>
    /\ UNCHANGED << sel_vars, edit_vars >>

\* the flag toggled instead of set
quit_toggles ==
    /\ should_quit' = ~should_quit
    /\ UNCHANGED << connection, current_database, current_collection,
                    current_page, page_size, loading, error,
                    current_screen, doc_scroll_offset, show_history >>
    /\ UNCHANGED << sel_vars, edit_vars >>

quit ==
    /\ should_quit' = TRUE
    /\ UNCHANGED << connection, current_database, current_collection,
                    current_page, page_size, loading, error,
                    current_screen, doc_scroll_offset, show_history >>
    /\ UNCHANGED << sel_vars, edit_vars >>

is_connected == connection # None

\* a screen change that also leaves every editing mode
set_screen_leaves_modes(screen) ==
    /\ current_screen' = screen
    /\ input_mode' = FALSE
    /\ filter_mode' = FALSE
    /\ query_mode' = FALSE
    /\ UNCHANGED << connection_input, filter_input, query_input, filter >>
    /\ UNCHANGED << connection, current_database, current_collection,
                    current_page, page_size, loading, error, should_quit,
                    doc_scroll_offset, show_history >>
    /\ UNCHANGED sel_vars

set_screen(screen) ==
    /\ current_screen' = screen
    /\ UNCHANGED << connection, current_database, current_collection,
                    current_page, page_size, loading, error, should_quit,
                    doc_scroll_offset, show_history >>
    /\ UNCHANGED << sel_vars, edit_vars >>

\* followed while the offset is below MaxScroll
scroll_doc_down ==
    /\ doc_scroll_offset < MaxScroll
    /\ doc_scroll_offset' = doc_scroll_offset + 1
    /\ UNCHANGED << connection, current_database, current_collection,
                    current_page, page_size, loading, error, should_quit,
                    current_screen, show_history >>
    /\ UNCHANGED << sel_vars, edit_vars >>

\* the decrement made without the test for 0
scroll_doc_up_unchecked ==
    /\ doc_scroll_offset' = doc_scroll_offset - 1
    /\ UNCHANGED << connection, current_database, current_collection,
                    current_page, page_size, loading, error, should_quit,
                    current_screen, show_history >>
    /\ UNCHANGED << sel_vars, edit_vars >>

scroll_doc_up ==
    /\ doc_scroll_offset' =
           IF doc_scroll_offset > 0 THEN doc_scroll_offset - 1 ELSE doc_scroll_offset
    /\ UNCHANGED << connection, current_database, current_collection,
                    current_page, page_size, loading, error, should_quit,
                    current_screen, show_history >>
    /\ UNCHANGED << sel_vars, edit_vars >>

toggle_history ==
    /\ show_history' = ~show_history
    /\ UNCHANGED << connection, current_database, current_collection,
                    current_page, page_size, loading, error, should_quit,
                    current_screen, doc_scroll_offset >>
    /\ UNCHANGED << sel_vars, edit_vars >>

\* ---------------------------------------------------------------- input modes

enter_input_mode ==
    /\ input_mode' = TRUE
    /\ UNCHANGED << connection_input, filter_input, query_input, filter,
                    filter_mode, query_mode >>
    /\ UNCHANGED << sel_vars, ctl_vars >>

exit_input_mode ==
    /\ input_mode' = FALSE
    /\ UNCHANGED << connection_input, filter_input, query_input, filter,
                    filter_mode, query_mode >>
    /\ UNCHANGED << sel_vars, ctl_vars >>

\* entering the filter mode leaves the other two modes
enter_filter_mode_exclusive ==
    /\ filter_mode' = TRUE
    /\ input_mode' = FALSE
    /\ query_mode' = FALSE
    /\ UNCHANGED << connection_input, filter_input, query_input, filter >>
    /\ UNCHANGED << sel_vars, ctl_vars >>

enter_filter_mode ==
    /\ filter_mode' = TRUE
    /\ UNCHANGED << connection_input, filter_input, query_input, filter,
                    input_mode, query_mode >>
    /\ UNCHANGED << sel_vars, ctl_vars >>

exit_filter_mode ==
    /\ filter_mode' = FALSE
    /\ UNCHANGED << connection_input, filter_input, query_input, filter,
                    input_mode, query_mode >>
    /\ UNCHANGED << sel_vars, ctl_vars >>

enter_query_mode ==
    /\ query_mode' = TRUE
    /\ UNCHANGED << connection_input, filter_input, query_input, filter,
                    input_mode, filter_mode >>
    /\ UNCHANGED << sel_vars, ctl_vars >>

\* leaving the query mode also empties the query buffer
exit_query_mode_clears_buffer ==
    /\ query_mode' = FALSE
    /\ query_input' = <<>>
    /\ UNCHANGED << connection_input, filter_input, filter,
                    input_mode, filter_mode >>
    /\ UNCHANGED << sel_vars, ctl_vars >>

exit_query_mode ==
    /\ query_mode' = FALSE
    /\ UNCHANGED << connection_input, filter_input, query_input, filter,
                    input_mode, filter_mode >>
    /\ UNCHANGED << sel_vars, ctl_vars >>

\* ---------------------------------------------------------------- text buffers

\* String::push
push(s, c) == Append(s, c)
\* String::pop: removes the last character, if there is one
\* the first character removed instead of the last
pop_front(s) == IF s = <<>> THEN s ELSE SubSeq(s, 2, Len(s))
pop(s) == IF s = <<>> THEN s ELSE SubSeq(s, 1, Len(s) - 1)

\* clearing the connection text also drops the compiled filter
clear_input_drops_filter ==
    /\ connection_input' = <<>>
    /\ filter' = None
    /\ UNCHANGED << filter_input, query_input,
                    input_mode, filter_mode, query_mode >>
    /\ UNCHANGED << sel_vars, ctl_vars >>

clear_input ==
    /\ connection_input' = <<>>
    /\ UNCHANGED << filter_input, query_input, filter,
                    input_mode, filter_mode, query_mode >>
    /\ UNCHANGED << sel_vars, ctl_vars >>

\* a push is followed while the buffer is shorter than MaxBuf
push_char(c) ==
    /\ Len(connection_input) < MaxBuf
    /\ connection_input' = push(connection_input, c)
    /\ UNCHANGED << filter_input, query_input, filter,
                    input_mode, filter_mode, query_mode >>
    /\ UNCHANGED << sel_vars, ctl_vars >>

pop_char ==
    /\ connection_input' = pop(connection_input)
    /\ UNCHANGED << filter_input, query_input, filter,
                    input_mode, filter_mode, query_mode >>
    /\ UNCHANGED << sel_vars, ctl_vars >>

clear_filter ==
    /\ filter_input' = <<>>
    /\ filter' = None
    /\ UNCHANGED << connection_input, query_input,
                    input_mode, filter_mode, query_mode >>
    /\ UNCHANGED << sel_vars, ctl_vars >>

push_filter_char(c) ==
    /\ Len(filter_input) < MaxBuf
    /\ filter_input' = push(filter_input, c)
    /\ UNCHANGED << connection_input, query_input, filter,
                    input_mode, filter_mode, query_mode >>
    /\ UNCHANGED << sel_vars, ctl_vars >>

\* a backspace in an empty filter buffer also drops the compiled filter
pop_filter_char_drops_filter ==
    /\ filter_input' = pop(filter_input)
    /\ filter' = IF filter_input = <<>> THEN None ELSE filter
    /\ UNCHANGED << connection_input, query_input,
                    input_mode, filter_mode, query_mode >>
    /\ UNCHANGED << sel_vars, ctl_vars >>

pop_filter_char ==
    /\ filter_input' = pop(filter_input)
    /\ UNCHANGED << connection_input, query_input, filter,
                    input_mode, filter_mode, query_mode >>
    /\ UNCHANGED << sel_vars, ctl_vars >>

\* the push made only while the query mode is on
push_every_char_in_query_mode(c) ==
    /\ Len(query_input) < MaxBuf
    /\ query_input' = IF query_mode THEN push(query_input, c) ELSE query_input
    /\ UNCHANGED << connection_input, filter_input, filter,
                    input_mode, filter_mode, query_mode >>
    /\ UNCHANGED << sel_vars, ctl_vars >>

push_every_char(c) ==
    /\ Len(query_input) < MaxBuf
    /\ query_input' = push(query_input, c)
    /\ UNCHANGED << connection_input, filter_input, filter,
                    input_mode, filter_mode, query_mode >>
    /\ UNCHANGED << sel_vars, ctl_vars >>

pop_every_char ==
    /\ query_input' = pop(query_input)
    /\ UNCHANGED << connection_input, filter_input, filter,
                    input_mode, filter_mode, query_mode >>
    /\ UNCHANGED << sel_vars, ctl_vars >>

clear_query ==
    /\ query_input' = <<>>
    /\ UNCHANGED << connection_input, filter_input, filter,
                    input_mode, filter_mode, query_mode >>
    /\ UNCHANGED << sel_vars, ctl_vars >>

push_query_char(c) ==
    /\ Len(query_input) < MaxBuf
    /\ query_input' = push(query_input, c)
    /\ UNCHANGED << connection_input, filter_input, filter,
                    input_mode, filter_mode, query_mode >>
    /\ UNCHANGED << sel_vars, ctl_vars >>

pop_query_char ==
    /\ query_input' = pop(query_input)
    /\ UNCHANGED << connection_input, filter_input, filter,
                    input_mode, filter_mode, query_mode >>
    /\ UNCHANGED << sel_vars, ctl_vars >>

\* ---------------------------------------------------------------- filter compiler

\* serde_json::from_str::<serde_json::Value> on a text over CharSet.  With no
\* quote in CharSet an object can have no key, so the only texts that parse are
\* the empty object and the unsigned numbers; any other text is an error.
JsonOk(value) == [ok |-> TRUE, value |-> value]
JsonErr(e) == [ok |-> FALSE, e |-> e]
from_str(s) ==
    CASE s = <<>> -> JsonErr("EOF while parsing a value")
      [] s # <<>> /\ s[1] = "{" ->
            IF Len(s) = 1 THEN JsonErr("EOF while parsing an object")
            ELSE IF s[2] # "}" THEN JsonErr("key must be a string")
            ELSE IF Len(s) > 2 THEN JsonErr("trailing characters")
            ELSE JsonOk([kind |-> "Object", members |-> <<>>])
      [] s # <<>> /\ s[1] \in Digits ->
            IF \A i \in 1..Len(s) : s[i] \in Digits
            THEN JsonOk([kind |-> "Number", members |-> s])
            ELSE JsonErr("trailing characters")
      [] OTHER -> JsonErr("expected value")

\* mongodb::bson::to_document: only a JSON object serializes to a Document
to_document(value) ==
    IF value.kind = "Object"
    THEN [ok |-> TRUE, doc |-> value.members]
    ELSE [ok |-> FALSE, e |-> "Could not be serialized to Document"]

\* the text apply_filter compiles: the query buffer unless it is empty
\* the priority reversed: the filter buffer unless it is empty
apply_filter_input_filter_first(query, filter_text) ==
    IF filter_text # <<>> THEN filter_text ELSE query
apply_filter_input(query, filter_text) ==
    IF query # <<>> THEN query ELSE filter_text

\* the filter and the result apply_filter leaves, by the path taken
\* the empty-input path returning without clearing the filter
empty_input_keeps_filter(old) == [filter |-> old, result |-> Ok]
\* the failure paths dropping the filter compiled before
invalid_filter_clears(old, e) == [filter |-> None, result |-> Err(<< "Invalid filter: ", e >>)]
invalid_json_clears(old, e) == [filter |-> None, result |-> Err(<< "Invalid JSON: ", e >>)]
empty_input(old) == [filter |-> None, result |-> Ok]
compiled(old, doc) == [filter |-> Some(doc), result |-> Ok]
invalid_filter(old, e) == [filter |-> old, result |-> Err(<< "Invalid filter: ", e >>)]
invalid_json(old, e) == [filter |-> old, result |-> Err(<< "Invalid JSON: ", e >>)]

compile(input, old) ==
    IF input = <<>> THEN empty_input(old)
    ELSE LET parsed == from_str(input) IN
         IF parsed.ok
         THEN LET converted == to_document(parsed.value) IN
              IF converted.ok THEN compiled(old, converted.doc)
              ELSE invalid_filter(old, converted.e)
         ELSE invalid_json(old, parsed.e)

\* a successful compile consuming the text it compiled
apply_filter_consumes_input ==
    LET out == compile(apply_filter_input(query_input, filter_input), filter) IN
    /\ filter' = out.filter
    /\ result' = out.result
    /\ query_input' = IF out.result = Ok THEN <<>> ELSE query_input
    /\ filter_input' = IF out.result = Ok /\ query_input = <<>> THEN <<>> ELSE filter_input
    /\ UNCHANGED << connection_input, input_mode, filter_mode, query_mode >>
    /\ UNCHANGED << sel_vars, ctl_vars >>

apply_filter ==
    LET out == compile(apply_filter_input(query_input, filter_input), filter) IN
    /\ filter' = out.filter
    /\ result' = out.result
    /\ UNCHANGED << connection_input, filter_input, query_input,
                    input_mode, filter_mode, query_mode >>
    /\ UNCHANGED << sel_vars, ctl_vars >>

\* ---------------------------------------------------------------- calls

\* one call is made while the run has calls left
Budget ==
    /\ calls_left # 0
    /\ calls_left' = IF calls_left > 0 THEN calls_left - 1 ELSE calls_left

\* a call of a method that returns nothing
Call(name, args, method) ==
    /\ Budget
    /\ method
    /\ last_op' = << name >> \o args
    /\ result' = Unit

SelectionCall ==
    \/ \E list \in Lists : Call("set_databases", << list >>, set_databases(list))
    \/ \E list \in Lists : Call("set_collections", << list >>, set_collections(list))
    \/ \E list \in Lists : Call("set_documents", << list >>, set_documents(list))
    \/ \E list \in Lists : Call("set_connection_history", << list >>, set_connection_history(list))
    \/ Call("select_next_db", <<>>, select_next_db)
    \/ Call("select_prev_db", <<>>, select_prev_db)
    \/ Call("select_next_coll", <<>>, select_next_coll)
    \/ Call("select_prev_coll", <<>>, select_prev_coll)
    \/ Call("select_next_doc", <<>>, select_next_doc)
    \/ Call("select_prev_doc", <<>>, select_prev_doc)
    \/ Call("select_next_history", <<>>, select_next_history)
    \/ Call("select_prev_history", <<>>, select_prev_history)



\* a call of apply_filter, which returns its Result
ApplyFilterCall ==
    /\ Budget
    /\ apply_filter
    /\ last_op' = << "apply_filter" >>

ControlCall ==
    \/ \E uri \in Uris, info \in ServerInfos :
           Call("set_connection", << uri, info >>, set_connection(uri, info))
    \/ \E flag \in BOOLEAN : Call("set_loading", << flag >>, set_loading(flag))
    \/ \E e \in {None} \cup {Some(m) : m \in Messages} : Call("set_error", << e >>, set_error(e))
    \/ Call("quit", <<>>, quit)
    \/ \E screen \in Screens : Call("set_screen", << screen >>, set_screen(screen))
    \/ Call("scroll_doc_down", <<>>, scroll_doc_down)
    \/ Call("scroll_doc_up", <<>>, scroll_doc_up)
    \/ Call("toggle_history", <<>>, toggle_history)

ModeCall ==
    \/ Call("enter_input_mode", <<>>, enter_input_mode)
    \/ Call("exit_input_mode", <<>>, exit_input_mode)
    \/ Call("enter_filter_mode", <<>>, enter_filter_mode)
    \/ Call("exit_filter_mode", <<>>, exit_filter_mode)
    \/ Call("enter_query_mode", <<>>, enter_query_mode)
    \/ Call("exit_query_mode", <<>>, exit_query_mode)

InputCall ==
    \/ Call("clear_input", <<>>, clear_input)
    \/ \E c \in CharSet : Call("push_char", << c >>, push_char(c))
    \/ Call("pop_char", <<>>, pop_char)

FilterCall ==
    \/ Call("clear_filter", <<>>, clear_filter)
    \/ \E c \in CharSet : Call("push_filter_char", << c >>, push_filter_char(c))
    \/ Call("pop_filter_char", <<>>, pop_filter_char)
    \/ \E c \in CharSet : Call("push_every_char", << c >>, push_every_char(c))
    \/ Call("pop_every_char", <<>>, pop_every_char)
    \/ Call("clear_query", <<>>, clear_query)
    \/ \E c \in CharSet : Call("push_query_char", << c >>, push_query_char(c))
    \/ Call("pop_query_char", <<>>, pop_query_char)
    \/ ApplyFilterCall

\* the selection index model alone: bulk loads and cursor movement, any number
\* of calls
SpecSelection == Init /\ [][SelectionCall]_vars

\* the filter compiler with its two buffers, and the error field beside it
NextFilter ==
    \/ FilterCall
    \/ \E e \in {None} \cup {Some(m) : m \in Messages} : Call("set_error", << e >>, set_error(e))
SpecFilter == Init /\ [][NextFilter]_vars

\* the three text buffers and the filter compiled from them
NextEdit == InputCall \/ FilterCall
SpecEdit == Init /\ [][NextEdit]_vars

\* connection, transient flags, screen, scroll offset and the mode flags
NextControl == ControlCall \/ ModeCall
SpecControl == Init /\ [][NextControl]_vars

\* every method of the aggregate, in runs of at most MaxSteps calls
Next == SelectionCall \/ ControlCall \/ ModeCall \/ InputCall \/ FilterCall
Spec == InitBounded /\ [][Next]_vars

\* ================================================================ claims

\* ---------------------------------------------------------------- C1

\* C1: loading a fresh list always resets its cursor: right after
\* set_databases(L), set_collections(L) or set_documents(L), for any list L,
\* the corresponding cursor is 0.
\* set_documents stores the list and leaves selected_doc_index as it was.
C1_FreshListResetsCursor ==
    /\ last_op[1] = "set_databases" => selected_db_index = 0
    /\ last_op[1] = "set_collections" => selected_coll_index = 0
    /\ last_op[1] = "set_documents" => selected_doc_index = 0

\* ---------------------------------------------------------------- C2

\* the index after k calls in a row of one select_* method on a list of length n
RECURSIVE repeat(_, _, _, _)
repeat(method, k, i, n) ==
    IF k = 0 THEN i
    ELSE repeat(method, k - 1,
                CASE method = "select_next_db" -> next_db_index(i, n)
                  [] method = "select_prev_db" -> prev_db_index(i, n)
                  [] method = "select_next_coll" -> next_coll_index(i, n)
                  [] method = "select_prev_coll" -> prev_coll_index(i, n)
                  [] method = "select_next_doc" -> next_doc_index(i, n)
                  [] method = "select_prev_doc" -> prev_doc_index(i, n)
                  [] method = "select_next_history" -> next_history_index(i, n)
                  [] method = "select_prev_history" -> prev_history_index(i, n),
                n)

\* N calls of the list's select_next, and N calls of its select_prev, each
\* bring cursor i of a list of length N back to i
FullCycle(next, prev, i, n) ==
    /\ repeat(next, n, i, n) = i
    /\ repeat(prev, n, i, n) = i

\* C2 as stated: in every reachable state, for each of the four lists, if the
\* list is non-empty with length N then N select_next calls in a row return the
\* cursor to its value, and so do N select_prev calls.
C2_CycleFromAnyCursor ==
    /\ databases # <<>> =>
           FullCycle("select_next_db", "select_prev_db",
                     selected_db_index, Len(databases))
    /\ collections # <<>> =>
           FullCycle("select_next_coll", "select_prev_coll",
                     selected_coll_index, Len(collections))
    /\ documents # <<>> =>
           FullCycle("select_next_doc", "select_prev_doc",
                     selected_doc_index, Len(documents))
    /\ connection_history # <<>> =>
           FullCycle("select_next_history", "select_prev_history",
                     selected_history_index, Len(connection_history))

\* C2 amended: in every reachable state, for each of the four lists, if the
\* list is non-empty with length N and its cursor is within the list
\* (cursor < N), then N select_next calls in a row return the cursor to its
\* value, and so do N select_prev calls.
C2_CycleFromCursorInRange ==
    /\ (databases # <<>> /\ selected_db_index < Len(databases)) =>
           FullCycle("select_next_db", "select_prev_db",
                     selected_db_index, Len(databases))
    /\ (collections # <<>> /\ selected_coll_index < Len(collections)) =>
           FullCycle("select_next_coll", "select_prev_coll",
                     selected_coll_index, Len(collections))
    /\ (documents # <<>> /\ selected_doc_index < Len(documents)) =>
           FullCycle("select_next_doc", "select_prev_doc",
                     selected_doc_index, Len(documents))
    /\ (connection_history # <<>> /\ selected_history_index < Len(connection_history)) =>
           FullCycle("select_next_history", "select_prev_history",
                     selected_history_index, Len(connection_history))

\* select_next_history has just moved the cursor of a full-length history to
\* its last element, from where the cycle wraps
C2_Witness ==
    /\ last_op[1] = "select_next_history"
    /\ Len(connection_history) = MaxLen
    /\ selected_history_index = MaxLen - 1
    /\ Len(documents) = MaxLen
    /\ selected_doc_index = 1

\* ---------------------------------------------------------------- C3

\* what a get_selected_* accessor is claimed to return for a list and cursor:
\* none for the empty list, else the element at the cursor, never none
ElementAtCursor(got, list, cursor) ==
    /\ list = <<>> => got = None
    /\ list # <<>> => (got # None /\ got = Some(list[cursor + 1]))

\* C3 as stated: in every reachable state each get_selected_* accessor returns
\* none when its list is empty and the element at the cursor, never none, when
\* its list is non-empty.
C3_SelectedNeverNoneWhenNonEmpty ==
    /\ ElementAtCursor(get_selected_database, databases, selected_db_index)
    /\ ElementAtCursor(get_selected_collection, collections, selected_coll_index)
    /\ ElementAtCursor(get_selected_document, documents, selected_doc_index)
    /\ ElementAtCursor(get_selected_history_uri, connection_history,
                       selected_history_index)

\* none for the empty list and for a cursor at or past the end of the list,
\* else the element at the cursor
ElementAtCursorOrStale(got, list, cursor) ==
    /\ (list = <<>> \/ cursor >= Len(list)) => got = None
    /\ (list # <<>> /\ cursor < Len(list)) => got = Some(list[cursor + 1])

\* C3 amended: in every reachable state each get_selected_* accessor returns
\* none when its list is empty or its cursor is at or past the end of the list
\* (a stale cursor), and otherwise the list element at the cursor.
C3_SelectedOrStale ==
    /\ ElementAtCursorOrStale(get_selected_database, databases, selected_db_index)
    /\ ElementAtCursorOrStale(get_selected_collection, collections,
                              selected_coll_index)
    /\ ElementAtCursorOrStale(get_selected_document, documents, selected_doc_index)
    /\ ElementAtCursorOrStale(get_selected_history_uri, connection_history,
                              selected_history_index)

\* a shorter history was loaded under a cursor that stayed past its end, and
\* the database cursor selects the second database
C3_Witness ==
    /\ last_op[1] = "set_connection_history"
    /\ connection_history # <<>>
    /\ selected_history_index >= Len(connection_history)
    /\ get_selected_history_uri = None
    /\ selected_db_index = 1
    /\ get_selected_database = Some(databases[2])

\* ---------------------------------------------------------------- C4

\* every text a buffer can hold
Texts == UNION { [1..k -> CharSet] : k \in 0..MaxBuf }

\* the text apply_filter is to compile in the current state
SelectedText == IF query_input # <<>> THEN query_input ELSE filter_input

\* the text does not parse, or parses to a value that is no filter document
Fails(text) ==
    LET parsed == from_str(text) IN
    ~parsed.ok \/ ~to_document(parsed.value).ok

\* C4: when apply_filter is called and the selected text is non-empty but
\* fails to parse or to convert, the call returns an error and the compiled
\* filter is exactly what it was before the call.
C4_FailureKeepsFilter ==
    [][ (last_op'[1] = "apply_filter" /\ SelectedText # <<>> /\ Fails(SelectedText))
            => (result'[1] = "Err" /\ filter' = filter) ]_vars

\* apply_filter has just failed on a query that is a number, and the filter
\* compiled earlier is still there
C4_Witness ==
    /\ last_op[1] = "apply_filter"
    /\ result[1] = "Err"
    /\ query_input = << "1" >>
    /\ filter = Some(<<>>)

\* ---------------------------------------------------------------- C5

\* C5: apply_filter selects its input by priority: when query_input is
\* non-empty the result and the compiled filter are those of compiling
\* query_input, whatever filter_input holds; when query_input is empty they
\* are those of compiling filter_input.
C5_QueryTakesPriority ==
    [][ last_op'[1] = "apply_filter" =>
            /\ query_input # <<>> =>
                   LET out == compile(query_input, filter) IN
                   /\ filter' = out.filter /\ result' = out.result
                   /\ \A other \in Texts :
                          compile(apply_filter_input(query_input, other), filter) = out
            /\ query_input = <<>> =>
                   LET out == compile(filter_input, filter) IN
                   filter' = out.filter /\ result' = out.result ]_vars

\* both buffers hold text, the filter buffer text does not parse, and
\* apply_filter has just compiled the query buffer's empty object
C5_Witness ==
    /\ last_op[1] = "apply_filter"
    /\ query_input = << "{", "}" >>
    /\ filter_input = << "{" >>
    /\ result = Ok
    /\ filter = Some(<<>>)

\* ---------------------------------------------------------------- C6

\* C6: when query_input and filter_input are both empty, apply_filter returns
\* success and the compiled filter is absent afterwards, whatever it was.
C6_EmptyTextClearsFilter ==
    [][ (last_op'[1] = "apply_filter" /\ query_input = <<>> /\ filter_input = <<>>)
            => (result' = Ok /\ filter' = None) ]_vars

\* apply_filter has just returned success on two empty buffers
C6_Witness ==
    /\ last_op[1] = "apply_filter"
    /\ query_input = <<>>
    /\ filter_input = <<>>
    /\ result = Ok
    /\ filter = None

\* ---------------------------------------------------------------- C7

\* the call just made was apply_filter and it returned an error
ApplyFilterFailed == last_op[1] = "apply_filter" /\ result[1] = "Err"

\* C7 as stated: when apply_filter fails, the error field is set to the
\* message describing the failure, and no other state is discarded.
C7_FailureSetsErrorField ==
    [][ ApplyFilterFailed' =>
            /\ error' = Some(result'[2])
            /\ UNCHANGED << sel_vars, edit_vars >>
            /\ UNCHANGED << connection, current_database, current_collection,
                            current_page, page_size, loading, should_quit,
                            current_screen, doc_scroll_offset, show_history >> ]_vars

\* C7 amended: when apply_filter fails, it returns the message describing the
\* failure ("Invalid JSON: ..." or "Invalid filter: ...") as its error result
\* and leaves the error field, like every other field, as it was; the error
\* field changes only by a set_error call.
C7_FailureReturnsMessage ==
    [][ ApplyFilterFailed' =>
            /\ result'[2][1] \in { "Invalid JSON: ", "Invalid filter: " }
            /\ UNCHANGED << sel_vars, edit_vars, ctl_vars >> ]_vars

\* apply_filter has just failed on text that is not JSON; the error field is
\* still absent and the filter compiled earlier is kept
C7_Witness ==
    /\ ApplyFilterFailed
    /\ result[2][1] = "Invalid JSON: "
    /\ error = None
    /\ filter # None

\* ---------------------------------------------------------------- C8

\* C8: quit is one-way: quit() sets should_quit, and once it is set no call,
\* a further quit() included, clears it.
C8_QuitIsOneWay ==
    [][ /\ last_op'[1] = "quit" => should_quit'
        /\ should_quit => should_quit' ]_vars

\* another method has been called after quit(), and the flag is still set
C8_Witness ==
    /\ should_quit
    /\ last_op[1] \notin { "new", "quit" }

\* ---------------------------------------------------------------- C9

\* C9: set_screen(s) is unconditional and changes current_screen only: it can
\* be called in every state for every screen s, it sets current_screen to s
\* and leaves every other field as it was.
C9_SetScreenOnlySetsScreen ==
    /\ [](\A screen \in Screens : ENABLED set_screen(screen))
    /\ [][ last_op'[1] = "set_screen" =>
               /\ current_screen' = last_op'[2]
               /\ UNCHANGED << sel_vars, edit_vars >>
               /\ UNCHANGED << connection, current_database, current_collection,
                               current_page, page_size, loading, error,
                               should_quit, doc_scroll_offset, show_history >> ]_vars

\* DocumentView has been entered with no connection, database or collection,
\* while a mode flag is set
C9_Witness ==
    /\ last_op = << "set_screen", "DocumentView" >>
    /\ current_screen = "DocumentView"
    /\ connection = None
    /\ current_database = None
    /\ current_collection = None
    /\ input_mode \/ filter_mode \/ query_mode

\* ---------------------------------------------------------------- C10

\* C10: the three mode flags are independent: each enter_<mode> sets its own
\* flag, each exit_<mode> clears its own flag, and neither changes the other
\* two flags.
C10_ModeFlagsIndependent ==
    [][ /\ last_op'[1] = "enter_input_mode" =>
               (input_mode' /\ UNCHANGED << filter_mode, query_mode >>)
        /\ last_op'[1] = "exit_input_mode" =>
               (~input_mode' /\ UNCHANGED << filter_mode, query_mode >>)
        /\ last_op'[1] = "enter_filter_mode" =>
               (filter_mode' /\ UNCHANGED << input_mode, query_mode >>)
        /\ last_op'[1] = "exit_filter_mode" =>
               (~filter_mode' /\ UNCHANGED << input_mode, query_mode >>)
        /\ last_op'[1] = "enter_query_mode" =>
               (query_mode' /\ UNCHANGED << input_mode, filter_mode >>)
        /\ last_op'[1] = "exit_query_mode" =>
               (~query_mode' /\ UNCHANGED << input_mode, filter_mode >>) ]_vars

\* all three flags are set at once, the last by enter_filter_mode
C10_Witness ==
    /\ last_op[1] = "enter_filter_mode"
    /\ input_mode
    /\ filter_mode
    /\ query_mode

\* ---------------------------------------------------------------- C11

\* C11: clear_filter leaves filter_input empty and the compiled filter absent;
\* clear_input and clear_query empty connection_input and query_input
\* respectively, change no other buffer and leave the compiled filter as it was.
C11_ClearFilterClearsCompiled ==
    [][ /\ last_op'[1] = "clear_filter" =>
               /\ filter_input' = <<>> /\ filter' = None
               /\ UNCHANGED << connection_input, query_input >>
        /\ last_op'[1] = "clear_input" =>
               /\ connection_input' = <<>>
               /\ UNCHANGED << filter_input, query_input, filter >>
        /\ last_op'[1] = "clear_query" =>
               /\ query_input' = <<>>
               /\ UNCHANGED << connection_input, filter_input, filter >> ]_vars

\* clear_input has just emptied the connection text while a compiled filter
\* and the filter text it came from are kept
C11_Witness ==
    /\ last_op[1] = "clear_input"
    /\ connection_input = <<>>
    /\ filter_input = << "{", "}" >>
    /\ filter = Some(<<>>)

\* ---------------------------------------------------------------- C12

\* C12: exit_input_mode, exit_filter_mode and exit_query_mode each clear their
\* own flag and leave the other flags, the three buffers and the compiled
\* filter as they were.
C12_ExitKeepsBuffers ==
    [][ /\ last_op'[1] = "exit_input_mode" =>
               (~input_mode' /\ UNCHANGED << filter_mode, query_mode >>)
        /\ last_op'[1] = "exit_filter_mode" =>
               (~filter_mode' /\ UNCHANGED << input_mode, query_mode >>)
        /\ last_op'[1] = "exit_query_mode" =>
               (~query_mode' /\ UNCHANGED << input_mode, filter_mode >>)
        /\ last_op'[1] \in { "exit_input_mode", "exit_filter_mode", "exit_query_mode" } =>
               UNCHANGED << connection_input, filter_input, query_input, filter >> ]_vars

\* the query mode has been left after a character was typed, and the
\* character is still in the query buffer
C12_Witness ==
    /\ last_op[1] = "exit_query_mode"
    /\ ~query_mode
    /\ query_input # <<>>

\* ---------------------------------------------------------------- C13

\* the call just made pushed a character onto, or popped one from, buffer
\* `after`, which was `before`
PushedOrPopped(push_name, pop_name, before, after) ==
    /\ last_op'[1] = push_name => after = before \o << last_op'[2] >>
    /\ last_op'[1] = pop_name =>
           after = IF before = <<>> THEN <<>> ELSE SubSeq(before, 1, Len(before) - 1)

\* C13: on each of the three buffers a push appends its character as the last
\* one and a pop removes exactly the last one, so a pop after a push restores
\* the buffer; pushes and pops on one buffer never change the other two.
C13_PushPopLastCharacter ==
    /\ [](\A c \in CharSet :
              /\ pop(push(connection_input, c)) = connection_input
              /\ pop(push(filter_input, c)) = filter_input
              /\ pop(push(query_input, c)) = query_input)
    /\ [][ /\ PushedOrPopped("push_char", "pop_char",
                             connection_input, connection_input')
           /\ PushedOrPopped("push_filter_char", "pop_filter_char",
                             filter_input, filter_input')
           /\ PushedOrPopped("push_query_char", "pop_query_char",
                             query_input, query_input')
           /\ last_op'[1] \in { "push_char", "pop_char" } =>
                  UNCHANGED << filter_input, query_input >>
           /\ last_op'[1] \in { "push_filter_char", "pop_filter_char" } =>
                  UNCHANGED << connection_input, query_input >>
           /\ last_op'[1] \in { "push_query_char", "pop_query_char" } =>
                  UNCHANGED << connection_input, filter_input >> ]_vars

\* pop_filter_char has just taken the last of two characters off the filter
\* buffer while the other two buffers hold text
C13_Witness ==
    /\ last_op[1] = "pop_filter_char"
    /\ filter_input = << "{" >>
    /\ query_input = << "1", "}" >>
    /\ connection_input # <<>>

\* ---------------------------------------------------------------- C14

\* the aggregate is as it was and the call returned nothing
NothingChanged == UNCHANGED app_vars /\ result' = Unit

\* C14: pop_char, pop_filter_char and pop_query_char on an empty buffer change
\* nothing: the buffer stays empty, no error is set or returned and no other
\* field changes.
C14_PopOnEmptyIsNoOp ==
    [][ /\ (last_op'[1] = "pop_char" /\ connection_input = <<>>) => NothingChanged
        /\ (last_op'[1] = "pop_filter_char" /\ filter_input = <<>>) => NothingChanged
        /\ (last_op'[1] = "pop_query_char" /\ query_input = <<>>) => NothingChanged ]_vars

\* pop_filter_char has just been called on the empty filter buffer, and the
\* filter compiled from the query buffer is still there
C14_Witness ==
    /\ last_op[1] = "pop_filter_char"
    /\ filter_input = <<>>
    /\ filter # None
    /\ error = None

\* ---------------------------------------------------------------- C15

\* C15: on an empty list select_next and select_prev leave the list's cursor
\* at the value it had, whatever that is, and return normally.
C15_EmptyListKeepsCursor ==
    [][ /\ (last_op'[1] \in { "select_next_db", "select_prev_db" } /\ databases = <<>>)
               => (selected_db_index' = selected_db_index /\ result' = Unit)
        /\ (last_op'[1] \in { "select_next_coll", "select_prev_coll" } /\ collections = <<>>)
               => (selected_coll_index' = selected_coll_index /\ result' = Unit)
        /\ (last_op'[1] \in { "select_next_doc", "select_prev_doc" } /\ documents = <<>>)
               => (selected_doc_index' = selected_doc_index /\ result' = Unit)
        /\ (last_op'[1] \in { "select_next_history", "select_prev_history" }
                /\ connection_history = <<>>)
               => (selected_history_index' = selected_history_index /\ result' = Unit) ]_vars

\* select_next_doc has just been called on an empty document list whose
\* cursor is not 0
C15_Witness ==
    /\ last_op[1] = "select_next_doc"
    /\ documents = <<>>
    /\ selected_doc_index = 1

\* ---------------------------------------------------------------- C16

\* i modulo n for any integer i, n > 0
Mod(i, n) == ((i % n) + n) % n

\* C16: right after set_databases(L) with L of length N >= 1, k calls of
\* select_next_db select the element of L at index k mod N, and j calls of
\* select_prev_db select the element at index (-j) mod N, for every k and j up
\* to two turns of the list.
C16_WrapAroundAfterLoad ==
    (last_op[1] = "set_databases" /\ databases # <<>>) =>
        LET N == Len(databases) IN
        \A k \in 0..(2 * N) :
            /\ get(databases, repeat("select_next_db", k, selected_db_index, N))
                   = Some(last_op[2][Mod(k, N) + 1])
            /\ get(databases, repeat("select_prev_db", k, selected_db_index, N))
                   = Some(last_op[2][Mod(0 - k, N) + 1])

\* set_databases has just loaded a list of the full length
C16_Witness ==
    /\ last_op[1] = "set_databases"
    /\ Len(databases) = MaxLen
    /\ get_selected_database = Some(databases[1])

\* ---------------------------------------------------------------- C17

\* C17: a fresh aggregate is not connected; set_connection(uri, info) stores
\* exactly that connection; no other call changes the connection, so once
\* connected the aggregate stays connected and connection.uri is the uri of
\* the latest set_connection call.
C17_ConnectedForGood ==
    /\ [](last_op[1] = "new" => ~is_connected)
    /\ [][ /\ last_op'[1] = "set_connection" =>
                  /\ is_connected'
                  /\ connection' = Some([uri |-> last_op'[2], server_info |-> last_op'[3]])
           /\ last_op'[1] # "set_connection" => connection' = connection
           /\ is_connected => is_connected' ]_vars

\* a second set_connection has replaced the first connection, and another
\* method has been called since
C17_Witness ==
    /\ is_connected
    /\ connection[1].uri = "db://host:2"
    /\ last_op[1] \notin { "new", "set_connection" }
    /\ calls_left = 0

\* ---------------------------------------------------------------- C18

\* C18: set_connection_history(H) replaces the history list and leaves
\* selected_history_index at the value it had.
C18_HistorySetterKeepsCursor ==
    [][ last_op'[1] = "set_connection_history" =>
            /\ connection_history' = last_op'[2]
            /\ selected_history_index' = selected_history_index ]_vars

\* a shorter, non-empty history has just been loaded and the cursor points
\* past its end
C18_Witness ==
    /\ last_op[1] = "set_connection_history"
    /\ Len(connection_history) = 1
    /\ selected_history_index = 1

\* ---------------------------------------------------------------- C19

\* C19: push_every_char(c) and push_query_char(c) lead from every state to the
\* same state, and so do pop_every_char and pop_query_char; each of the four
\* changes query_input only, whether query_mode is set or not.
C19_EveryCharSameAsQueryChar ==
    [][ /\ \A c \in CharSet : push_every_char(c) <=> push_query_char(c)
        /\ pop_every_char <=> pop_query_char
        /\ last_op'[1] \in { "push_every_char", "push_query_char" } =>
               /\ query_input' = query_input \o << last_op'[2] >>
               /\ query_mode' = query_mode
        /\ last_op'[1] \in { "pop_every_char", "pop_query_char" } =>
               /\ query_input' = pop(query_input)
               /\ query_mode' = query_mode ]_vars

\* push_every_char has just appended to the query buffer with the query mode
\* off
C19_Witness ==
    /\ last_op[1] = "push_every_char"
    /\ ~query_mode
    /\ Len(query_input) = 2

\* ---------------------------------------------------------------- C20

\* C20: the scroll offset is never negative; scroll_doc_up leaves offset 0 at 0
\* and otherwise takes exactly 1 off; scroll_doc_down adds exactly 1, and can
\* be called at every offset below MaxScroll.
C20_ScrollSaturatesAtZero ==
    /\ [](doc_scroll_offset >= 0)
    /\ [](doc_scroll_offset < MaxScroll => ENABLED scroll_doc_down)
    /\ [][ /\ last_op'[1] = "scroll_doc_up" =>
                  doc_scroll_offset' =
                      IF doc_scroll_offset = 0 THEN 0 ELSE doc_scroll_offset - 1
           /\ last_op'[1] = "scroll_doc_down" =>
                  doc_scroll_offset' = doc_scroll_offset + 1 ]_vars

\* scroll_doc_up has just been called at offset 0
C20_Witness ==
    /\ last_op[1] = "scroll_doc_up"
    /\ doc_scroll_offset = 0
    /\ loading

\* ---------------------------------------------------------------- C21

\* C21: a newly constructed aggregate is disconnected, on the Connection
\* screen, with four empty lists, four cursors at 0, page size 20, the default
\* URI as connection text, empty filter and query text, no compiled filter,
\* the three mode flags off, not loading, no error and not quitting.
C21_InitialState ==
    last_op[1] = "new" =>
        /\ ~is_connected /\ connection = None
        /\ current_screen = "Connection"
        /\ databases = <<>> /\ collections = <<>>
        /\ documents = <<>> /\ connection_history = <<>>
        /\ selected_db_index = 0 /\ selected_coll_index = 0
        /\ selected_doc_index = 0 /\ selected_history_index = 0
        /\ page_size = 20
        /\ connection_input = DefaultUri /\ connection_input # <<>>
        /\ filter_input = <<>> /\ query_input = <<>>
        /\ filter = None
        /\ ~input_mode /\ ~filter_mode /\ ~query_mode
        /\ ~loading
        /\ error = None
        /\ ~should_quit

\* the aggregate has just been constructed and no method has been called
C21_Witness ==
    /\ last_op = << "new" >>
    /\ calls_left = MaxSteps
    /\ Len(connection_input) = 25

\* ---------------------------------------------------------------- C22

\* C22: in every reachable state the databases list is empty or
\* selected_db_index is below its length, and the collections list is empty
\* or selected_coll_index is below its length.
C22_DbAndCollCursorsInRange ==
    /\ databases = <<>> \/ selected_db_index < Len(databases)
    /\ collections = <<>> \/ selected_coll_index < Len(collections)

\* a one-element collections list has just been loaded while the databases
\* cursor selects the last database
C22_Witness ==
    /\ last_op[1] = "set_collections"
    /\ Len(collections) = 1
    /\ selected_coll_index = 0
    /\ Len(databases) = MaxLen
    /\ selected_db_index = MaxLen - 1

\* ---------------------------------------------------------------- C23

\* C23: on every path apply_filter changes the compiled filter only: the two
\* buffers it reads, the connection text, the mode flags, the error and
\* loading flags, the lists, the cursors and the screen are as they were.
C23_ApplyFilterChangesFilterOnly ==
    [][ last_op'[1] = "apply_filter" =>
            /\ UNCHANGED << connection_input, filter_input, query_input >>
            /\ UNCHANGED << input_mode, filter_mode, query_mode >>
            /\ UNCHANGED << sel_vars, ctl_vars >> ]_vars

\* apply_filter has just compiled the query buffer, which still holds the text
C23_Witness ==
    /\ last_op[1] = "apply_filter"
    /\ result = Ok
    /\ filter = Some(<<>>)
    /\ query_input = << "{", "}" >>
    /\ filter_input = <<>>

\* ---------------------------------------------------------------- C24

\* the cursor select_next leaves, from the cursor and the list length alone
NextOf(i, n) == IF n = 0 THEN i ELSE (i + 1) % n
\* the cursor select_prev leaves, from the cursor and the list length alone
PrevOf(i, n) == IF n = 0 THEN i ELSE IF i = 0 THEN n - 1 ELSE i - 1

\* the call just made was the list's select_next or select_prev and the list's
\* cursor went from `before` to `after`, decided by the length of `list`
Moved(next_name, prev_name, before, after, list) ==
    /\ last_op'[1] = next_name => after = NextOf(before, Len(list))
    /\ last_op'[1] = prev_name => after = PrevOf(before, Len(list))

\* C24: each select_next_* / select_prev_* method moves its own cursor by the
\* length of its own list alone and leaves the other three cursors, the four
\* lists and doc_scroll_offset as they were.
C24_CursorsIndependent ==
    [][ /\ Moved("select_next_db", "select_prev_db",
                 selected_db_index, selected_db_index', databases)
        /\ Moved("select_next_coll", "select_prev_coll",
                 selected_coll_index, selected_coll_index', collections)
        /\ Moved("select_next_doc", "select_prev_doc",
                 selected_doc_index, selected_doc_index', documents)
        /\ Moved("select_next_history", "select_prev_history",
                 selected_history_index, selected_history_index', connection_history)
        /\ last_op'[1] \in { "select_next_db", "select_prev_db" } =>
               UNCHANGED << selected_coll_index, selected_doc_index,
                            selected_history_index >>
        /\ last_op'[1] \in { "select_next_coll", "select_prev_coll" } =>
               UNCHANGED << selected_db_index, selected_doc_index,
                            selected_history_index >>
        /\ last_op'[1] \in { "select_next_doc", "select_prev_doc" } =>
               UNCHANGED << selected_db_index, selected_coll_index,
                            selected_history_index >>
        /\ last_op'[1] \in { "select_next_history", "select_prev_history" } =>
               UNCHANGED << selected_db_index, selected_coll_index,
                            selected_doc_index >>
        /\ last_op'[1] \in { "select_next_db", "select_prev_db",
                             "select_next_coll", "select_prev_coll",
                             "select_next_doc", "select_prev_doc",
                             "select_next_history", "select_prev_history" } =>
               UNCHANGED << databases, collections, documents,
                            connection_history, doc_scroll_offset >> ]_vars

\* select_next_coll has just wrapped the collections cursor of a one-element
\* list while the databases list is longer and the other cursors are not 0
C24_Witness ==
    /\ last_op[1] = "select_next_coll"
    /\ Len(collections) = 1
    /\ selected_coll_index = 0
    /\ Len(databases) = 2
    /\ selected_db_index = 1
    /\ selected_doc_index = 1
    /\ selected_history_index = 1

====
